---- MODULE Spec2Model ----
(***************************************************************************)
(* Model of src/main.py: a FastAPI application that keeps person records   *)
(* (id, nome, cognome, codice_fiscale) in the CSV file data.csv.  Every    *)
(* endpoint reads the whole file with pandas.read_csv and every mutation   *)
(* rewrites it with DataFrame.to_csv.                                      *)
(*                                                                         *)
(* Library behaviour the handlers rely on, as modelled here:               *)
(*  - pandas.read_csv turns an empty cell and the default NA markers into  *)
(*    the float NaN; DataFrame.to_csv writes NaN as an empty cell;         *)
(*  - assigning a str into an all-NaN column upcasts the column (pandas    *)
(*    up to 2.x);                                                          *)
(*  - pydantic (v2) rejects a float where a str field is declared, and an  *)
(*    exception other than HTTPException leaves the handler as a 500;      *)
(*  - the router tries the routes in declaration order and takes the       *)
(*    first whose method and path match.                                   *)
(* The text values of the model contain no numeric or boolean literals,    *)
(* so pandas infers every data column as object (or float when all NaN).   *)
(***************************************************************************)
EXTENDS Integers, Sequences, FiniteSets, TLC

\* Bounds of the model: rows in the file when requests carry the full range
\* of texts (Spec), and ids issued when they carry few texts (SpecIds).
MaxRows == 2
MaxId == 4

VARIABLES
    csv,        \* data.csv: [exists, rows], rows as written in the file
    req,        \* the HTTP exchange under observation: the request the
    resp,       \*   run ends with, and its response
    maxIssued,  \* history: greatest id a successful create has returned
    pc,         \* concurrent service: position of each request handler
    op,         \* concurrent service: the request each handler serves
    snap,       \* concurrent service: the DataFrame each handler holds
    newId,      \* concurrent service: the id get_next_id gave a create
    ack,        \* concurrent service: the response each handler returned
    sched       \* history: the steps taken, in order

vars == <<csv, req, resp, maxIssued, pc, op, snap, newId, ack, sched>>
seqVars == <<req, resp, maxIssued>>
concVars == <<pc, op, snap, newId, ack, sched>>

-----------------------------------------------------------------------------
(* Values *)

\* A str value held by a DataFrame cell or a request field.
Str(s) == [kind |-> "str", val |-> s]
\* The float NaN pandas uses for a missing cell.
NaN == [kind |-> "float", val |-> "nan"]
\* None: an optional request field that was not supplied.
None == [kind |-> "none", val |-> ""]

\* Text values clients send.
Nomi == {"Ada", "NA"}
Cognomi == {"Rossi", "Bianchi"}
CodiciFiscali == {"CF1", "CF2", ""}

\* pandas' default na_values for read_csv.
NAValues ==
    {"", "#N/A", "#N/A N/A", "#NA", "-1.#IND", "-1.#QNAN", "-NaN", "-nan",
     "1.#IND", "1.#QNAN", "<NA>", "N/A", "NA", "NULL", "NaN", "None", "n/a",
     "nan", "null"}

Max(S) == CHOOSE m \in S : \A x \in S : x <= m

Indices(s) == 1..Len(s)

-----------------------------------------------------------------------------
(* The CSV file and the DataFrame *)

NoFile == [exists |-> FALSE, rows |-> <<>>]

\* init_csv: create the file with the header row only when it is absent.
init_csv(f) == IF f.exists THEN f ELSE [exists |-> TRUE, rows |-> <<>>]

\* One cell as read_csv parses it.
ParseCell(text) == IF text \in NAValues THEN NaN ELSE Str(text)

\* One cell as to_csv writes it.
FormatCell(v) == IF v = NaN THEN "" ELSE v.val

ParseRow(r) ==
    [id |-> r.id, nome |-> ParseCell(r.nome), cognome |-> ParseCell(r.cognome),
     codice_fiscale |-> ParseCell(r.codice_fiscale)]

FormatRow(r) ==
    [id |-> r.id, nome |-> FormatCell(r.nome), cognome |-> FormatCell(r.cognome),
     codice_fiscale |-> FormatCell(r.codice_fiscale)]

\* read_csv: the DataFrame read from the file (init_csv has run before).
read_csv(f) == [i \in Indices(init_csv(f).rows) |-> ParseRow(init_csv(f).rows[i])]

\* write_csv: the file after df.to_csv(CSV_FILE, index=False).
write_csv(df) == [exists |-> TRUE, rows |-> [i \in Indices(df) |-> FormatRow(df[i])]]

\* Mutant of get_next_id: the number of rows plus one.
get_next_id_count(f) == Len(read_csv(f)) + 1

\* Mutant of get_next_id: the smallest id no row holds.
get_next_id_gap(f) ==
    LET df == read_csv(f)
        used == {df[i].id : i \in Indices(df)}
    IN CHOOSE n \in 1..(Len(df) + 1) :
           n \notin used /\ \A m \in 1..(n - 1) : m \in used

\* get_next_id: reads the file again; 1 when empty, else max(id) + 1.
get_next_id(f) ==
    LET df == read_csv(f)
    IN IF Len(df) = 0 THEN 1 ELSE Max({df[i].id : i \in Indices(df)}) + 1

-----------------------------------------------------------------------------
(* Responses *)

Response(status, body, items, count, detail) ==
    [status |-> status, body |-> body, items |-> items, count |-> count,
     detail |-> detail]

\* raise HTTPException(status_code, detail)
HTTPException(status, detail) == Response(status, "error", <<>>, 0, detail)

\* An exception that is not an HTTPException: 500 Internal Server Error.
InternalServerError == Response(500, "error", <<>>, 0, "Internal Server Error")

\* A path parameter that does not validate as int: 422.
UnprocessableEntity == Response(422, "error", <<>>, 0, "int_parsing")

\* No route matches the request.
NoRoute == Response(404, "error", <<>>, 0, "Not Found")

NoResponse == Response(0, "none", <<>>, 0, "")

\* Item(**d) validates: every str field holds a str.
ItemValid(d) ==
    /\ d.nome.kind = "str"
    /\ d.cognome.kind = "str"
    /\ d.codice_fiscale.kind = "str"

\* The Item model built from a dict whose fields validate.
Item(d) ==
    [id |-> d.id, nome |-> d.nome.val, cognome |-> d.cognome.val,
     codice_fiscale |-> d.codice_fiscale.val]

\* return Item(**d) from a handler with response_model=Item.
ReturnItem(d) ==
    IF ItemValid(d) THEN Response(200, "item", <<Item(d)>>, 0, "")
    ELSE InternalServerError

Out(f, r) == [csv |-> f, resp |-> r]

-----------------------------------------------------------------------------
(* Request bodies *)

\* ItemCreate: three required str fields.
ItemCreate(nome, cognome, codice_fiscale) ==
    [nome |-> Str(nome), cognome |-> Str(cognome),
     codice_fiscale |-> Str(codice_fiscale)]

\* ItemUpdate: three optional fields, None when not supplied.
ItemUpdate(nomi, cognomi, codici) ==
    [nome : {None} \cup {Str(s) : s \in nomi},
     cognome : {None} \cup {Str(s) : s \in cognomi},
     codice_fiscale : {None} \cup {Str(s) : s \in codici}]

NoBody == [nome |-> None, cognome |-> None, codice_fiscale |-> None]

\* Python truthiness of an Optional[str]: None and "" are falsy.
Truthy(v) == v # None /\ v.val # ""

-----------------------------------------------------------------------------
(* Endpoints.  Each gives the file and the response it leaves behind. *)

\* create_item, line 57: the fiscal code is among the column's values.
create_duplicate(df, item) ==
    /\ Len(df) # 0
    /\ \E i \in Indices(df) : df[i].codice_fiscale = item.codice_fiscale

\* create_item, lines 61-66: the new row.
new_item(new_id, item) ==
    [id |-> new_id, nome |-> item.nome, cognome |-> item.cognome,
     codice_fiscale |-> item.codice_fiscale]

\* POST /items/
create_item(f, item) ==
    LET df == read_csv(f)
    IN IF create_duplicate(df, item)
       THEN Out(init_csv(f), HTTPException(400, "Codice fiscale already exists"))
       ELSE LET new_id == get_next_id(init_csv(f))
                d == new_item(new_id, item)
            IN Out(write_csv(Append(df, d)), ReturnItem(d))

\* GET /items/
get_all_items(f) ==
    LET df == read_csv(f)
    IN IF Len(df) = 0 THEN Out(init_csv(f), Response(200, "list", <<>>, 0, ""))
       ELSE IF \A i \in Indices(df) : ItemValid(df[i])
       THEN Out(init_csv(f),
                Response(200, "list", [i \in Indices(df) |-> Item(df[i])], 0, ""))
       ELSE Out(init_csv(f), InternalServerError)

\* df[df['id'] == item_id].index
item_index(df, item_id) == {i \in Indices(df) : df[i].id = item_id}

\* GET /items/{item_id}
get_item(f, item_id) ==
    LET df == read_csv(f)
    IN IF Len(df) = 0 THEN Out(init_csv(f), HTTPException(404, "Item not found"))
       ELSE IF item_index(df, item_id) = {}
       THEN Out(init_csv(f), HTTPException(404, "Item not found"))
       ELSE LET idx == CHOOSE i \in item_index(df, item_id) :
                           \A j \in item_index(df, item_id) : i <= j
            IN Out(init_csv(f), ReturnItem(df[idx]))

\* update_item, lines 109-112: the supplied fiscal code is held by another row.
update_duplicate(df, item_id, item_update) ==
    /\ Truthy(item_update.codice_fiscale)
    /\ \E i \in Indices(df) :
          /\ df[i].codice_fiscale = item_update.codice_fiscale
          /\ df[i].id # item_id

\* update_item, lines 116-121: the fields that are not None are assigned.
update_fields(row, item_update) ==
    [id |-> row.id,
     nome |-> IF item_update.nome # None THEN item_update.nome ELSE row.nome,
     cognome |-> IF item_update.cognome # None THEN item_update.cognome
                 ELSE row.cognome,
     codice_fiscale |-> IF item_update.codice_fiscale # None
                        THEN item_update.codice_fiscale
                        ELSE row.codice_fiscale]

\* update_item, lines 115-121 on the DataFrame: row item_index[0] is changed.
update_df(df, item_id, item_update) ==
    LET idx == CHOOSE i \in item_index(df, item_id) :
                   \A j \in item_index(df, item_id) : i <= j
    IN [df EXCEPT ![idx] = update_fields(df[idx], item_update)]

\* Mutant of update_item: the fields are assigned and the file is written
\* before the fiscal code is checked.
update_item_write_first(f, item_id, item_update) ==
    LET df == read_csv(f)
    IN IF Len(df) = 0 THEN Out(init_csv(f), HTTPException(404, "Item not found"))
       ELSE IF item_index(df, item_id) = {}
       THEN Out(init_csv(f), HTTPException(404, "Item not found"))
       ELSE LET idx == CHOOSE i \in item_index(df, item_id) :
                           \A j \in item_index(df, item_id) : i <= j
                df2 == update_df(df, item_id, item_update)
            IN IF update_duplicate(df, item_id, item_update)
               THEN Out(write_csv(df2),
                        HTTPException(400, "Codice fiscale already exists"))
               ELSE Out(write_csv(df2), ReturnItem(df2[idx]))

\* PUT /items/{item_id}
update_item(f, item_id, item_update) ==
    LET df == read_csv(f)
    IN IF Len(df) = 0 THEN Out(init_csv(f), HTTPException(404, "Item not found"))
       ELSE IF item_index(df, item_id) = {}
       THEN Out(init_csv(f), HTTPException(404, "Item not found"))
       ELSE IF update_duplicate(df, item_id, item_update)
       THEN Out(init_csv(f), HTTPException(400, "Codice fiscale already exists"))
       ELSE LET idx == CHOOSE i \in item_index(df, item_id) :
                           \A j \in item_index(df, item_id) : i <= j
                df2 == update_df(df, item_id, item_update)
            IN Out(write_csv(df2), ReturnItem(df2[idx]))

\* Mutant of delete_df: df[df['id'] > item_id].
delete_df_above(df, item_id) ==
    LET keep(r) == r.id > item_id IN SelectSeq(df, keep)

\* Mutant of delete_df: df.drop(item_id), which drops by index label.
delete_df_drop_label(df, item_id) ==
    IF item_id + 1 \in Indices(df)
    THEN SubSeq(df, 1, item_id) \o SubSeq(df, item_id + 2, Len(df))
    ELSE df

\* delete_item, line 139: df[df['id'] != item_id]
delete_df(df, item_id) ==
    LET keep(r) == r.id # item_id IN SelectSeq(df, keep)

\* DELETE /items/{item_id}
delete_item(f, item_id) ==
    LET df == read_csv(f)
    IN IF Len(df) = 0 THEN Out(init_csv(f), HTTPException(404, "Item not found"))
       ELSE IF item_index(df, item_id) = {}
       THEN Out(init_csv(f), HTTPException(404, "Item not found"))
       ELSE Out(write_csv(delete_df(df, item_id)),
                Response(200, "message", <<>>, 0, "Item deleted successfully"))

\* GET /items/count
get_items_count(f) ==
    Out(init_csv(f), Response(200, "count", <<>>, Len(read_csv(f)), ""))

\* GET /
root(f) == Out(f, Response(200, "message", <<>>, 0, "CSV Management API is running"))

-----------------------------------------------------------------------------
(* Routing *)

\* A path is the sequence of its segments: /items/ is <<"items", "">>.
Request(method, path, body) == [method |-> method, path |-> path, body |-> body]

\* The routes in the order the decorators register them.
Routes ==
    << [method |-> "POST",   path |-> <<"items", "">>,          endpoint |-> "create_item"],
       [method |-> "GET",    path |-> <<"items", "">>,          endpoint |-> "get_all_items"],
       [method |-> "GET",    path |-> <<"items", "{item_id}">>, endpoint |-> "get_item"],
       [method |-> "PUT",    path |-> <<"items", "{item_id}">>, endpoint |-> "update_item"],
       [method |-> "DELETE", path |-> <<"items", "{item_id}">>, endpoint |-> "delete_item"],
       [method |-> "GET",    path |-> <<"items", "count">>,     endpoint |-> "get_items_count"],
       [method |-> "GET",    path |-> <<"">>,                   endpoint |-> "root"] >>

\* A path parameter matches any non-empty segment; a literal matches itself.
SegmentMatches(pattern, segment) ==
    IF pattern = "{item_id}" THEN segment # "" ELSE pattern = segment

RouteMatches(route, r) ==
    /\ route.method = r.method
    /\ Len(route.path) = Len(r.path)
    /\ \A k \in Indices(route.path) : SegmentMatches(route.path[k], r.path[k])

\* The first route, in registration order, that matches; 0 when none does.
Dispatch(r) ==
    IF \E k \in Indices(Routes) : RouteMatches(Routes[k], r)
    THEN CHOOSE k \in Indices(Routes) :
             /\ RouteMatches(Routes[k], r)
             /\ \A j \in Indices(Routes) : RouteMatches(Routes[j], r) => k <= j
    ELSE 0

\* item_id: int, converted from the path segment.
IntTexts == 0..(MaxId + MaxRows + 1)
IsInt(segment) == \E i \in IntTexts : ToString(i) = segment
IntOf(segment) == CHOOSE i \in IntTexts : ToString(i) = segment

\* The endpoint of the dispatched route, run on the file f.
Handle(r, f) ==
    LET k == Dispatch(r)
        endpoint == IF k = 0 THEN "none" ELSE Routes[k].endpoint
    IN CASE endpoint = "create_item" -> create_item(f, r.body)
         [] endpoint = "get_all_items" -> get_all_items(f)
         [] endpoint = "get_items_count" -> get_items_count(f)
         [] endpoint = "root" -> root(f)
         [] endpoint \in {"get_item", "update_item", "delete_item"} ->
                IF ~IsInt(r.path[2]) THEN Out(f, UnprocessableEntity)
                ELSE CASE endpoint = "get_item" -> get_item(f, IntOf(r.path[2]))
                       [] endpoint = "update_item" ->
                              update_item(f, IntOf(r.path[2]), r.body)
                       [] endpoint = "delete_item" ->
                              delete_item(f, IntOf(r.path[2]))
         [] OTHER -> Out(f, NoRoute)

-----------------------------------------------------------------------------
(* Sequential service: one request at a time, each handled to completion *)

Procs == {1, 2}

NoOp == [kind |-> "none", id |-> 0, body |-> NoBody]

ConcIdle ==
    /\ pc = [p \in Procs |-> "off"]
    /\ op = [p \in Procs |-> NoOp]
    /\ snap = [p \in Procs |-> <<>>]
    /\ newId = [p \in Procs |-> 0]
    /\ ack = [p \in Procs |-> NoResponse]
    /\ sched = <<>>

NoRequest == Request("NONE", <<>>, NoBody)

Init ==
    /\ csv = NoFile
    /\ req = NoRequest
    /\ resp = NoResponse
    /\ maxIssued = 0
    /\ ConcIdle

IsCreated(r, rs) == r.method = "POST" /\ rs.status = 200 /\ rs.body = "item"

\* The server handles request r.  The exchange is recorded in req and resp
\* when it is the one under observation, which is the last of the run.
Serve(r, observe) ==
    LET out == Handle(r, csv)
    IN /\ csv' = out.csv
       /\ req' = IF observe THEN r ELSE req
       /\ resp' = IF observe THEN out.resp ELSE resp
       /\ maxIssued' = IF IsCreated(r, out.resp)
                       THEN Max({maxIssued, out.resp.items[1].id})
                       ELSE maxIssued
       /\ UNCHANGED concVars

\* The requests clients send: the texts, the ids, and how far the file and
\* the ids may grow.
FullRange ==
    [nomi |-> Nomi, cognomi |-> Cognomi, codici |-> CodiciFiscali,
     updates |-> ItemUpdate(Nomi, Cognomi, CodiciFiscali),
     rows |-> MaxRows, ids |-> MaxRows + 1]

IdRange ==
    [nomi |-> {"Ada"}, cognomi |-> {"Rossi"}, codici |-> CodiciFiscali,
     updates |-> ItemUpdate({}, {"Verdi"}, {"CF1"}),
     rows |-> MaxId, ids |-> MaxId]

PostItems(D) ==
    /\ req = NoRequest
    /\ Len(csv.rows) < D.rows
    /\ get_next_id(csv) <= D.ids
    /\ \E n \in D.nomi, c \in D.cognomi, cf \in D.codici, o \in BOOLEAN :
           Serve(Request("POST", <<"items", "">>, ItemCreate(n, c, cf)), o)

GetItems ==
    /\ req = NoRequest
    /\ \E o \in BOOLEAN : Serve(Request("GET", <<"items", "">>, NoBody), o)

GetItem(D) ==
    /\ req = NoRequest
    /\ \E i \in 1..D.ids, o \in BOOLEAN :
           Serve(Request("GET", <<"items", ToString(i)>>, NoBody), o)

PutItem(D) ==
    /\ req = NoRequest
    /\ \E i \in 1..D.ids, u \in D.updates, o \in BOOLEAN :
           Serve(Request("PUT", <<"items", ToString(i)>>, u), o)

DeleteItem(D) ==
    /\ req = NoRequest
    /\ \E i \in 1..D.ids, o \in BOOLEAN :
           Serve(Request("DELETE", <<"items", ToString(i)>>, NoBody), o)

GetCount ==
    /\ req = NoRequest
    /\ \E o \in BOOLEAN : Serve(Request("GET", <<"items", "count">>, NoBody), o)

GetRoot ==
    /\ req = NoRequest
    /\ \E o \in BOOLEAN : Serve(Request("GET", <<"">>, NoBody), o)

Next ==
    \/ PostItems(FullRange)
    \/ GetItems
    \/ GetItem(FullRange)
    \/ PutItem(FullRange)
    \/ DeleteItem(FullRange)
    \/ GetCount
    \/ GetRoot

Spec == Init /\ [][Next]_vars

NextIds ==
    \/ PostItems(IdRange)
    \/ GetItems
    \/ GetItem(IdRange)
    \/ PutItem(IdRange)
    \/ DeleteItem(IdRange)
    \/ GetCount
    \/ GetRoot

SpecIds == Init /\ [][NextIds]_vars

-----------------------------------------------------------------------------
(* Vocabulary of the properties *)

\* The exchange under observation has taken place.
Observed == req # NoRequest

\* The table as every endpoint sees it: what read_csv returns.
Table(f) == read_csv(f)

IdsIn(f) == {f.rows[i].id : i \in Indices(f.rows)}

\* r is <method> /items/<k> for an integer k.
IsItemRequest(r, method) ==
    /\ r.method = method
    /\ Len(r.path) = 2
    /\ r.path[1] = "items"
    /\ IsInt(r.path[2])

PathId(r) == IntOf(r.path[2])

IsNotFound(rs) == rs.status = 404 /\ rs.detail = "Item not found"

IsDuplicateKey(rs) == rs.status = 400 /\ rs.detail = "Codice fiscale already exists"

\* Position of the row with id k in the table t.
RowOf(t, k) == CHOOSE i \in Indices(t) : t[i].id = k

\* The sequence s without its i-th element.
Without(s, i) == SubSeq(s, 1, i - 1) \o SubSeq(s, i + 1, Len(s))

-----------------------------------------------------------------------------
(* C1 *)

\* C1: no two rows of the table have the same codice_fiscale, after any
\* sequence of create, update and delete requests served one at a time.
C1_FiscalCodeUnique ==
    \A i, j \in Indices(csv.rows) :
        i # j => csv.rows[i].codice_fiscale # csv.rows[j].codice_fiscale

-----------------------------------------------------------------------------
(* C2 *)

\* C2 as stated: every successful create returns an id strictly greater than
\* the id returned by every earlier successful create, deleted or not.
C2_NeverIssuedTwice ==
    [][IsCreated(req', resp') => resp'.items[1].id > maxIssued]_vars

\* C2 as amended: every successful create returns an id strictly greater than
\* the id of every row in the table at the time of the create, so the rows
\* of the table always have pairwise distinct ids.
C2_GreaterThanPresent ==
    [][/\ IsCreated(req', resp') =>
             \A k \in IdsIn(csv) : resp'.items[1].id > k
       /\ \A i, j \in Indices(csv'.rows) :
             i # j => csv'.rows[i].id # csv'.rows[j].id]_vars

\* Ids 1, 2 and 3 were issued, 3 and 2 were deleted, and the create under
\* observation has returned 2 again.
C2_Witness ==
    /\ IsCreated(req, resp)
    /\ resp.items[1].id = 2
    /\ maxIssued = 3
    /\ IdsIn(csv) = {1, 2}

-----------------------------------------------------------------------------
(* C3 *)

\* C3: a request answered NotFound or DuplicateKey leaves the rows of the
\* file, their contents and their order as they were.
C3_FailureLeavesTable ==
    [][(IsNotFound(resp') \/ IsDuplicateKey(resp')) =>
           /\ csv'.rows = csv.rows
           /\ csv.exists => csv' = csv]_vars

\* An update was refused as a duplicate on a table of two rows.
C3_Witness ==
    /\ IsItemRequest(req, "PUT")
    /\ IsDuplicateKey(resp)
    /\ Len(csv.rows) = 2

-----------------------------------------------------------------------------
(* C5 *)

\* C5: GET /items/count always succeeds and returns the number of rows.
C5_CountSucceeds ==
    req = Request("GET", <<"items", "count">>, NoBody) =>
        /\ resp.status = 200
        /\ resp.body = "count"
        /\ resp.count = Len(csv.rows)

-----------------------------------------------------------------------------
(* C6 *)

\* C6: a successful create returns 1 on an empty table and otherwise the
\* greatest id in the table plus one, and appends the row with that id.
C6_MaxPlusOne ==
    [][IsCreated(req', resp') =>
           /\ resp'.items[1].id =
                  IF IdsIn(csv) = {} THEN 1 ELSE Max(IdsIn(csv)) + 1
           /\ Len(csv'.rows) = Len(csv.rows) + 1
           /\ csv'.rows[Len(csv'.rows)].id = resp'.items[1].id]_vars

\* Ids 1, 2, 3 were created, 2 was deleted, and the next create returned 4.
C6_Witness ==
    /\ IsCreated(req, resp)
    /\ resp.items[1].id = 4
    /\ Len(csv.rows) = 3
    /\ csv.rows[1].id = 1
    /\ csv.rows[2].id = 3
    /\ csv.rows[3].id = 4

-----------------------------------------------------------------------------
(* C7 *)

\* The value a successful update leaves in one field of its row: the text
\* supplied, or the value the field had.
FieldKept(supplied, before, after, text) ==
    IF supplied = None THEN after = before ELSE text = supplied.val

\* C7: a successful update changes exactly the supplied fields of the row
\* with that id; its id and unsupplied fields, every other row, and the number
\* and order of rows stay; with no fields supplied the update of an existing
\* id succeeds, and the table and the returned record are as before the call.
C7_UpdateFrame ==
    [][IsItemRequest(req', "PUT") =>
        LET k == PathId(req')
            u == req'.body
            t == Table(csv)
            t2 == Table(csv')
        IN /\ resp'.status = 200 =>
                 /\ Len(t2) = Len(t)
                 /\ \A i \in Indices(t) : t[i].id # k => t2[i] = t[i]
                 /\ \A i \in Indices(t) : t[i].id = k =>
                        /\ t2[i].id = k
                        /\ FieldKept(u.nome, t[i].nome, t2[i].nome,
                                     csv'.rows[i].nome)
                        /\ FieldKept(u.cognome, t[i].cognome, t2[i].cognome,
                                     csv'.rows[i].cognome)
                        /\ FieldKept(u.codice_fiscale, t[i].codice_fiscale,
                                     t2[i].codice_fiscale,
                                     csv'.rows[i].codice_fiscale)
           /\ (u = NoBody /\ k \in IdsIn(csv)) =>
                 /\ resp'.status = 200
                 /\ t2 = t
                 /\ resp'.items = <<Item(t[RowOf(t, k)])>>
                 /\ ItemValid(t[RowOf(t, k)])]_vars

\* The first half of C7 alone: what a successful update leaves behind.
C7_SuccessfulUpdateFrame ==
    [][(IsItemRequest(req', "PUT") /\ resp'.status = 200) =>
        LET k == PathId(req')
            u == req'.body
            t == Table(csv)
            t2 == Table(csv')
        IN /\ Len(t2) = Len(t)
           /\ \A i \in Indices(t) : t[i].id # k => t2[i] = t[i]
           /\ \A i \in Indices(t) : t[i].id = k =>
                  /\ t2[i].id = k
                  /\ FieldKept(u.nome, t[i].nome, t2[i].nome, csv'.rows[i].nome)
                  /\ FieldKept(u.cognome, t[i].cognome, t2[i].cognome,
                               csv'.rows[i].cognome)
                  /\ FieldKept(u.codice_fiscale, t[i].codice_fiscale,
                               t2[i].codice_fiscale,
                               csv'.rows[i].codice_fiscale)]_vars

-----------------------------------------------------------------------------
(* C8 *)

-----------------------------------------------------------------------------
(* C9 *)

\* C9: right after a successful create, a get of the returned id and the
\* matching entry of the list give the record the create returned.
C9_RoundTrip ==
    IsCreated(req, resp) =>
        LET item == resp.items[1]
            got == Handle(Request("GET", <<"items", ToString(item.id)>>, NoBody),
                          csv).resp
            all == Handle(Request("GET", <<"items", "">>, NoBody), csv).resp
        IN /\ got.status = 200
           /\ got.items = <<item>>
           /\ all.status = 200
           /\ \E i \in Indices(all.items) : all.items[i] = item

-----------------------------------------------------------------------------
(* C10 *)

\* C10: an update that supplies only the fiscal code X is answered NotFound
\* when the id is absent; otherwise DuplicateKey exactly when a row with a
\* different id holds X, and it succeeds when X is the code its own row holds
\* (for a row whose nome and cognome read back as text).
C10_UpdateFiscalCode ==
    [][(/\ IsItemRequest(req', "PUT")
        /\ req'.body.nome = None
        /\ req'.body.cognome = None
        /\ req'.body.codice_fiscale # None) =>
        LET k == PathId(req')
            x == req'.body.codice_fiscale.val
            heldByOther == \E i \in Indices(csv.rows) :
                               /\ csv.rows[i].id # k
                               /\ csv.rows[i].codice_fiscale = x
            heldBySelf == \E i \in Indices(csv.rows) :
                              /\ csv.rows[i].id = k
                              /\ csv.rows[i].codice_fiscale = x
                              /\ Table(csv)[i].nome # NaN
                              /\ Table(csv)[i].cognome # NaN
        IN IF k \notin IdsIn(csv) THEN IsNotFound(resp')
           ELSE /\ IsDuplicateKey(resp') <=> heldByOther
                /\ (heldBySelf /\ ~heldByOther) => resp'.status = 200]_vars

-----------------------------------------------------------------------------
(* Concurrent service: two handlers whose reads and writes of the file       *)
(* interleave.  A handler takes its steps in program order: the read of      *)
(* the table with the checks made on it, for a create the second read in     *)
(* get_next_id, and the write with the response.                             *)

RECURSIVE Created(_)
\* The file after the creates in items were served one after the other.
Created(items) ==
    IF Len(items) = 0 THEN NoFile
    ELSE create_item(Created(SubSeq(items, 1, Len(items) - 1)),
                     items[Len(items)]).csv

StartTables ==
    {Created(<<>>),
     Created(<<ItemCreate("Ada", "Rossi", "CF1")>>),
     Created(<<ItemCreate("Ada", "Rossi", "CF1"),
               ItemCreate("Ada", "Bianchi", "CF2")>>)}

Operation(kind, id, body) == [kind |-> kind, id |-> id, body |-> body]

Operations ==
    {Operation("create", 0, ItemCreate("Eva", "Verdi", cf)) : cf \in {"CF1", "CF3"}}
    \cup {Operation("update", i, u) :
             i \in 1..2,
             u \in {[NoBody EXCEPT !.nome = Str("Eva")],
                    [NoBody EXCEPT !.codice_fiscale = Str("CF3")]}}
    \cup {Operation("delete", i, NoBody) : i \in 1..3}

InitConc ==
    /\ csv \in StartTables
    /\ req = NoRequest
    /\ resp = NoResponse
    /\ maxIssued = 0
    /\ pc = [p \in Procs |-> "idle"]
    /\ op = [p \in Procs |-> NoOp]
    /\ snap = [p \in Procs |-> <<>>]
    /\ newId = [p \in Procs |-> 0]
    /\ ack = [p \in Procs |-> NoResponse]
    /\ sched = <<>>

\* A request arrives and handler p starts on it.
Start(p) ==
    /\ pc[p] = "idle"
    /\ \E o \in Operations : op' = [op EXCEPT ![p] = o]
    /\ pc' = [pc EXCEPT ![p] = "read"]
    /\ UNCHANGED <<csv, snap, newId, ack, sched>>
    /\ UNCHANGED seqVars

Finish(p, response) ==
    /\ pc' = [pc EXCEPT ![p] = "done"]
    /\ ack' = [ack EXCEPT ![p] = response]

\* df = read_csv() and the checks each endpoint makes on df; update and
\* delete also compute the DataFrame they will write.
Read(p) ==
    LET df == read_csv(csv)
        o == op[p]
        missing == Len(df) = 0 \/ item_index(df, o.id) = {}
    IN /\ pc[p] = "read"
       /\ csv' = init_csv(csv)
       /\ sched' = Append(sched, <<p, "read">>)
       /\ UNCHANGED <<op, newId>>
       /\ UNCHANGED seqVars
       /\ CASE o.kind = "create" ->
                  IF create_duplicate(df, o.body)
                  THEN /\ Finish(p, HTTPException(400, "Codice fiscale already exists"))
                       /\ snap' = [snap EXCEPT ![p] = df]
                  ELSE /\ pc' = [pc EXCEPT ![p] = "nextid"]
                       /\ snap' = [snap EXCEPT ![p] = df]
                       /\ UNCHANGED ack
            [] o.kind = "update" ->
                  IF missing
                  THEN /\ Finish(p, HTTPException(404, "Item not found"))
                       /\ snap' = [snap EXCEPT ![p] = df]
                  ELSE IF update_duplicate(df, o.id, o.body)
                  THEN /\ Finish(p, HTTPException(400, "Codice fiscale already exists"))
                       /\ snap' = [snap EXCEPT ![p] = df]
                  ELSE /\ pc' = [pc EXCEPT ![p] = "write"]
                       /\ snap' = [snap EXCEPT ![p] = update_df(df, o.id, o.body)]
                       /\ UNCHANGED ack
            [] o.kind = "delete" ->
                  IF missing
                  THEN /\ Finish(p, HTTPException(404, "Item not found"))
                       /\ snap' = [snap EXCEPT ![p] = df]
                  ELSE /\ pc' = [pc EXCEPT ![p] = "write"]
                       /\ snap' = [snap EXCEPT ![p] = delete_df(df, o.id)]
                       /\ UNCHANGED ack

\* new_id = get_next_id(), which reads the file as it is now.
NextId(p) ==
    /\ pc[p] = "nextid"
    /\ newId' = [newId EXCEPT ![p] = get_next_id(csv)]
    /\ csv' = init_csv(csv)
    /\ pc' = [pc EXCEPT ![p] = "write"]
    /\ sched' = Append(sched, <<p, "nextid">>)
    /\ UNCHANGED <<op, snap, ack>>
    /\ UNCHANGED seqVars

\* write_csv(df) and the response.
Write(p) ==
    LET o == op[p]
        d == new_item(newId[p], o.body)
        idx == CHOOSE i \in item_index(snap[p], o.id) :
                   \A j \in item_index(snap[p], o.id) : i <= j
    IN /\ pc[p] = "write"
       /\ sched' = Append(sched, <<p, "write">>)
       /\ UNCHANGED <<op, snap, newId>>
       /\ UNCHANGED seqVars
       /\ CASE o.kind = "create" ->
                  /\ csv' = write_csv(Append(snap[p], d))
                  /\ Finish(p, ReturnItem(d))
            [] o.kind = "update" ->
                  /\ csv' = write_csv(snap[p])
                  /\ Finish(p, ReturnItem(snap[p][idx]))
            [] o.kind = "delete" ->
                  /\ csv' = write_csv(snap[p])
                  /\ Finish(p, Response(200, "message", <<>>, 0,
                                        "Item deleted successfully"))

NextConc == \E p \in Procs : Start(p) \/ Read(p) \/ NextId(p) \/ Write(p)

SpecConc == InitConc /\ [][NextConc]_vars

-----------------------------------------------------------------------------
(* C4 *)

Took(p, step) == \E i \in Indices(sched) : sched[i] = <<p, step>>

Pos(p, step) == CHOOSE i \in Indices(sched) : sched[i] = <<p, step>>

\* Handler p took step s before handler q took step t.
Before(p, s, q, t) == Took(p, s) /\ Took(q, t) /\ Pos(p, s) < Pos(q, t)

\* Handler p has answered 200.
Acked(p) == pc[p] = "done" /\ ack[p].status = 200

SharedId == \E i, j \in Indices(csv.rows) : i # j /\ csv.rows[i].id = csv.rows[j].id

\* C4: without concurrency control a create that read the table before
\* another acknowledged mutation wrote it, and writes after it, undoes that
\* mutation: of two acknowledged creates one row is missing, an acknowledged
\* update is missing, a deleted row is present again, and when the deleted
\* row held the greatest id and get_next_id ran after the delete, two rows
\* share that id.
C4_StaleWriteUndoes ==
    \A p, q \in Procs :
        (/\ p # q
         /\ Acked(p)
         /\ Acked(q)
         /\ op[q].kind = "create"
         /\ Before(q, "read", p, "write")
         /\ Before(p, "write", q, "write")) =>
            CASE op[p].kind = "create" ->
                     Len(csv.rows) = Len(snap[q]) + 1
              [] op[p].kind = "update" ->
                     /\ \A i \in Indices(Table(csv)) :
                            ItemValid(Table(csv)[i]) =>
                                Item(Table(csv)[i]) # ack[p].items[1]
                     /\ \A i \in Indices(snap[q]) : Table(csv)[i] = snap[q][i]
              [] op[p].kind = "delete" ->
                     /\ op[p].id \in IdsIn(csv)
                     /\ (/\ Before(p, "write", q, "nextid")
                         /\ op[p].id = Max({snap[q][i].id : i \in Indices(snap[q])}))
                            => SharedId

\* A delete and a create were both acknowledged; the deleted row is in the
\* table again and shares its id with the created row.
C4_Witness ==
    \E p, q \in Procs :
        /\ Acked(p)
        /\ Acked(q)
        /\ op[p].kind = "delete"
        /\ op[q].kind = "create"
        /\ op[p].id \in IdsIn(csv)
        /\ SharedId

\* A create or an update was acknowledged and the table does not hold it.
C4_LostUpdate ==
    \E p, q \in Procs :
        /\ p # q
        /\ Acked(p)
        /\ Acked(q)
        /\ op[p].kind \in {"create", "update"}
        /\ op[q].kind = "create"
        /\ \A i \in Indices(Table(csv)) :
               ItemValid(Table(csv)[i]) => Item(Table(csv)[i]) # ack[p].items[1]

====
